---- MODULE Spec2Model ----
(***************************************************************************)
(* A model of src/index.js: the BrowserFingerprint session (cookie store,  *)
(* collector registry, get(), hashComponents), the collectors registered   *)
(* by Fingerprint.load, and the host objects they read (document.cookie,   *)
(* navigator, window).                                                     *)
(*                                                                         *)
(* Text is a sequence of one-character strings, so that indexOf, split,    *)
(* substring, charCodeAt and decodeURIComponent are computed character by  *)
(* character.  A 32-bit integer is an Int in -2^31 .. 2^31-1; sums that    *)
(* leave that range in the source are computed on 16-bit halves.           *)
(***************************************************************************)
EXTENDS Integers, Sequences, FiniteSets, TLC

VARIABLES
    options,    \* the argument of Fingerprint.load, or NoOptions before the call
    loadResult, \* what the call of load gave its caller
    bf,         \* the BrowserFingerprint object: its fields, or NoSession
    jar,        \* the host's cookie store behind document.cookie
    now,        \* the host's clock, in days
    host,       \* the state of each host capability a collector reads
    userAgent,  \* navigator.userAgent, which the environment may change
    calls,      \* one record per get() call: position, promise, results
    writes,     \* number of assignments to document.cookie so far
    pureIn,     \* input of a direct application of a pure function
    pureOut,    \* its result
    storeLog    \* direct setCookie / getCookie applications: last write, last read

vars == <<options, loadResult, bf, jar, now, host, userAgent, calls, writes,
          pureIn, pureOut, storeLog>>

(***************************************************************************)
(* Bounds of the model.                                                    *)
(***************************************************************************)
MaxCalls == 2      \* get() calls per behaviour
MaxNow == 1        \* days the clock may advance
MaxPureLen == 3    \* length of the lists given to the pure functions
MaxValueLen == 3   \* length of the texts given to setCookie directly

(***************************************************************************)
(* Characters and text.                                                    *)
(***************************************************************************)
\* The printable ASCII characters, code 32 first (code 96 is written "grave").
Ascii ==
    <<" ", "!", "\"", "#", "$", "%", "&", "'", "(", ")", "*", "+", ",", "-", ".", "/",
      "0", "1", "2", "3", "4", "5", "6", "7", "8", "9", ":", ";", "<", "=", ">", "?",
      "@", "A", "B", "C", "D", "E", "F", "G", "H", "I", "J", "K", "L", "M", "N", "O",
      "P", "Q", "R", "S", "T", "U", "V", "W", "X", "Y", "Z", "[", "\\", "]", "^", "_",
      "grave", "a", "b", "c", "d", "e", "f", "g", "h", "i", "j", "k", "l", "m", "n", "o",
      "p", "q", "r", "s", "t", "u", "v", "w", "x", "y", "z", "{", "|", "}", "~">>

\* str.charCodeAt(i) for a printable ASCII character.
charCodeAt(ch) == 31 + (CHOOSE i \in 1..Len(Ascii) : Ascii[i] = ch)

\* String.fromCharCode for a printable ASCII code.
fromCharCode(code) == Ascii[code - 31]

HexDigits == <<"0", "1", "2", "3", "4", "5", "6", "7", "8", "9",
               "a", "b", "c", "d", "e", "f">>

RECURSIVE Concat(_)
\* the texts of a sequence, joined
Concat(ss) == IF ss = <<>> THEN <<>> ELSE Head(ss) \o Concat(Tail(ss))

RECURSIVE Join(_, _)
\* Array.prototype.join
Join(ss, sep) ==
    IF ss = <<>> THEN <<>>
    ELSE IF Len(ss) = 1 THEN Head(ss)
    ELSE Head(ss) \o sep \o Join(Tail(ss), sep)

\* s.indexOf(t) === 0
StartsWith(s, t) == Len(s) >= Len(t) /\ SubSeq(s, 1, Len(t)) = t

\* position of the first ch in s, or 0
FirstIndex(s, ch) ==
    IF \E i \in 1..Len(s) : s[i] = ch
    THEN CHOOSE i \in 1..Len(s) : s[i] = ch /\ \A j \in 1..(i - 1) : s[j] # ch
    ELSE 0

RECURSIVE Split(_, _)
\* String.prototype.split on a one-character separator
Split(s, ch) ==
    LET i == FirstIndex(s, ch)
    IN  IF i = 0 THEN <<s>>
        ELSE <<SubSeq(s, 1, i - 1)>> \o Split(SubSeq(s, i + 1, Len(s)), ch)

RECURSIVE TrimLeft(_)
\* while (cookie.charAt(0) === " ") cookie = cookie.substring(1)
TrimLeft(s) == IF s # <<>> /\ Head(s) = " " THEN TrimLeft(Tail(s)) ELSE s

RECURSIVE TrimRight(_)
TrimRight(s) ==
    IF s # <<>> /\ s[Len(s)] = " " THEN TrimRight(SubSeq(s, 1, Len(s) - 1)) ELSE s

Trim(s) == TrimRight(TrimLeft(s))

(***************************************************************************)
(* 32-bit integers.                                                        *)
(***************************************************************************)
Two16 == 65536
Two15 == 32768

\* ToInt32 of hi * 2^16 + lo, for lo in 0..65535 and any small hi
Int32OfHalves(hi, lo) == (((hi + Two15) % Two16) - Two15) * Two16 + lo

\* hash << 5
ShiftLeft5(h) ==
    LET u == h % 134217728    \* the low 27 bits
    IN  IF u >= 67108864 THEN (u - 134217728) * 32 ELSE u * 32

\* (a - b + c) & (a - b + c): the sum is exact in the source (a double) and
\* wrapped once by the bitwise and
ToInt32Sum(a, b, c) ==
    LET lo == (a % Two16) - (b % Two16) + c
        hi == (a \div Two16) - (b \div Two16) + (lo \div Two16)
    IN  Int32OfHalves(hi, lo % Two16)

RECURSIVE HexOf(_)
\* the hexadecimal digits of n >= 0, none for 0
HexOf(n) == IF n = 0 THEN <<>> ELSE HexOf(n \div 16) \o <<HexDigits[(n % 16) + 1]>>

\* four hexadecimal digits of n in 0..65535
Hex4(n) ==
    <<HexDigits[(n \div 4096) + 1], HexDigits[((n \div 256) % 16) + 1],
      HexDigits[((n \div 16) % 16) + 1], HexDigits[(n % 16) + 1]>>

\* the digits of hi * 2^16 + lo >= 0
HexOfHalves(hi, lo) ==
    IF hi = 0 THEN (IF lo = 0 THEN <<"0">> ELSE HexOf(lo)) ELSE HexOf(hi) \o Hex4(lo)

\* hash.toString(16) of a 32-bit integer: the digits of its magnitude after
\* a "-" when it is negative
toString16(n) ==
    LET hi == n \div Two16
        lo == n % Two16
    IN  IF n >= 0 THEN HexOfHalves(hi, lo)
        ELSE <<"-">> \o (IF lo = 0 THEN HexOfHalves(0 - hi, 0)
                         ELSE HexOfHalves((0 - hi) - 1, Two16 - lo))

(***************************************************************************)
(* Values of signals and JSON.stringify.                                   *)
(* A value is a text, a non-negative integer, null, undefined, or an       *)
(* object or array given by its JSON text.  Texts hold no quote and no     *)
(* backslash, so that JSON.stringify escapes nothing in them.              *)
(***************************************************************************)
StrVal(s) == [t |-> "str", s |-> s]
NumVal(n) == [t |-> "num", n |-> n]
JsonVal(s) == [t |-> "json", s |-> s]
Null == [t |-> "null"]
Undefined == [t |-> "undef"]

RECURSIVE Decimal(_)
Decimal(n) == IF n < 10 THEN <<HexDigits[n + 1]>>
              ELSE Decimal(n \div 10) \o <<HexDigits[(n % 10) + 1]>>

\* JSON.stringify of one element of an array
StringifyValue(v) ==
    CASE v.t = "str" -> <<"\"">> \o v.s \o <<"\"">>
      [] v.t = "num" -> Decimal(v.n)
      [] v.t = "json" -> v.s
      [] OTHER -> <<"n", "u", "l", "l">>    \* null, and undefined in an array

\* JSON.stringify of an array of values
JSONstringify(values) ==
    <<"[">> \o Join([i \in 1..Len(values) |-> StringifyValue(values[i])], <<",">>)
    \o <<"]">>

(***************************************************************************)
(* BrowserFingerprint.hashComponents                                       *)
(***************************************************************************)
\* one turn of the loop: hash = (hash << 5) - hash + char; hash = hash & hash
HashStepShift4(hash, char) ==
    ToInt32Sum((IF (hash % 268435456) >= 134217728
                THEN ((hash % 268435456) - 268435456) * 16
                ELSE (hash % 268435456) * 16), hash, char)
HashStep(hash, char) == ToInt32Sum(ShiftLeft5(hash), hash, char)

RECURSIVE HashLoop(_, _, _, _)
\* the for loop over the characters from..to of str, entered with hash.  The
\* range is walked in two halves; the first half's result is a 32-bit
\* integer before the second half is entered with it.
HashLoop(str, from, to, hash) ==
    IF from > to THEN hash
    ELSE IF from = to THEN HashStep(hash, charCodeAt(str[from]))
    ELSE LET mid == (from + to) \div 2
             half == HashLoop(str, from, mid, hash)
         IN  IF half >= -2147483647 - 1 THEN HashLoop(str, mid + 1, to, half) ELSE half

\* let hash = 0; for (let i = 0; i < str.length; i++) ...
HashText(str, hash) == HashLoop(str, 1, Len(str), hash)

\* components.map((c) => c.value)
MapValue(components) == [i \in 1..Len(components) |-> components[i].value]

hashComponents(components) ==
    toString16(HashText(JSONstringify(MapValue(components)), 0))

(***************************************************************************)
(* The host's cookie store: document.cookie.                               *)
(* A cookie is [name, value, expires]; the jar keeps creation order.  The  *)
(* clock counts days, the unit of cookieDays, so the date written by       *)
(* toUTCString and parsed by the host is the day now + cookieDays.         *)
(***************************************************************************)
\* the cookies the host still holds at time t
Live(j, t) == SelectSeq(j, LAMBDA c : c.expires > t)

\* reading document.cookie: name=value of every live cookie, joined by "; "
DocumentCookieGet(j, t) ==
    LET live == Live(j, t)
    IN  Join([i \in 1..Len(live) |-> live[i].name \o <<"=">> \o live[i].value],
             <<";", " ">>)

\* assigning document.cookie = pair;expires=<date>;path=/;SameSite=Lax, where
\* pair is the text before the expires attribute.  The host takes the text up
\* to the first ";" as name=value, splits it at the first "=", trims both, and
\* ignores the attributes it does not know; a pair without "=" is ignored.  A
\* cookie of that name is replaced in place, or removed by a date not in the
\* future.
DocumentCookieSet(j, pair, expires, t) ==
    LET first == Split(pair, ";")[1]
        eq    == FirstIndex(first, "=")
        name  == Trim(SubSeq(first, 1, eq - 1))
        value == Trim(SubSeq(first, eq + 1, Len(first)))
        new   == [name |-> name, value |-> value, expires |-> expires]
        held  == \E i \in 1..Len(j) : j[i].name = name
    IN  IF eq = 0 THEN j
        ELSE IF expires <= t THEN SelectSeq(j, LAMBDA c : c.name # name)
        ELSE IF held THEN [i \in 1..Len(j) |-> IF j[i].name = name THEN new ELSE j[i]]
        ELSE Append(j, new)

\* the value of a hexadecimal digit, or -1
HexVal(ch) ==
    CASE ch \in {"0", "1", "2", "3", "4", "5", "6", "7", "8", "9"} -> charCodeAt(ch) - 48
      [] ch \in {"a", "b", "c", "d", "e", "f"} -> charCodeAt(ch) - 87
      [] ch \in {"A", "B", "C", "D", "E", "F"} -> charCodeAt(ch) - 55
      [] OTHER -> -1

\* the byte of the escape %XX at position i of s, or -1 when there is none
EscapeAt(s, i) ==
    IF i + 2 <= Len(s) /\ s[i] = "%" /\ HexVal(s[i + 1]) >= 0 /\ HexVal(s[i + 2]) >= 0
    THEN 16 * HexVal(s[i + 1]) + HexVal(s[i + 2])
    ELSE -1

\* bytes of the UTF-8 sequence a lead byte opens, 0 for a byte that opens none
Utf8Length(b) ==
    IF b < 128 THEN 1
    ELSE IF b >= 194 /\ b <= 223 THEN 2
    ELSE IF b >= 224 /\ b <= 239 THEN 3
    ELSE IF b >= 240 /\ b <= 244 THEN 4
    ELSE 0

RECURSIVE DecodeFrom(_, _)
\* decodeURIComponent from position i: the decoded rest, or <<"URIError">>
\* (no text holds that element otherwise).  A control character is written
\* "ctl" and a character beyond ASCII "uni".
DecodeFrom(s, i) ==
    IF i > Len(s) THEN <<>>
    ELSE IF s[i] # "%" THEN
        LET rest == DecodeFrom(s, i + 1)
        IN  IF rest = <<"URIError">> THEN rest ELSE <<s[i]>> \o rest
    ELSE
        LET b == EscapeAt(s, i)
            n == IF b < 0 THEN 0 ELSE Utf8Length(b)
            tailOk == \A k \in 1..(n - 1) :
                         /\ EscapeAt(s, i + 3 * k) >= 128
                         /\ EscapeAt(s, i + 3 * k) <= 191
            rest == IF n = 0 \/ ~tailOk THEN <<"URIError">> ELSE DecodeFrom(s, i + 3 * n)
            ch == IF b >= 128 THEN "uni"
                  ELSE IF b < 32 \/ b = 127 THEN "ctl"
                  ELSE fromCharCode(b)
        IN  IF rest = <<"URIError">> THEN rest ELSE <<ch>> \o rest

decodeURIComponent(s) == DecodeFrom(s, 1)

(***************************************************************************)
(* BrowserFingerprint: constructor, setCookie, getCookie                   *)
(***************************************************************************)
NoValue == [t |-> "undef"]     \* an option the caller left out
DefaultCookieName == <<"s", "m", "b", "f", "j", "s", "_", "i", "d">>
DefaultCookieDays == 365

\* !x for an option: left out, the empty text, or the number 0
Falsy(x) == x.t = "undef" \/ (x.t = "str" /\ x.s = <<>>) \/ (x.t = "num" /\ x.n = 0)

\* the fields the constructor assigns before its check of apiKey
ConstructorFields(o) ==
    [apiKey     |-> o.apiKey,
     cookieName |-> IF Falsy(o.cookieName) THEN DefaultCookieName ELSE o.cookieName.s,
     cookieDays |-> IF Falsy(o.cookieDays) THEN DefaultCookieDays ELSE o.cookieDays.n]

\* if (!this.apiKey) throw new Error("API key is required")
ConstructorThrowsNever(o) == FALSE
ConstructorThrows(o) == Falsy(o.apiKey)

\* setCookie(value): the jar after the assignment to document.cookie
setCookieSkipped(session, value, j, t) == j
setCookieAppended(session, value, j, t) ==
    Append(j, [name |-> session.cookieName, value |-> value,
               expires |-> t + session.cookieDays])
setCookie(session, value, j, t) ==
    DocumentCookieSet(j, session.cookieName \o <<"=">> \o value,
                      t + session.cookieDays, t)

RECURSIVE FindCookie(_, _, _)
\* the for loop of getCookie over the pieces from position i
FindCookie(cookies, i, name) ==
    IF i > Len(cookies) THEN [kind |-> "null"]
    ELSE LET cookie == TrimLeft(cookies[i])
         IN  IF StartsWith(cookie, name)
             THEN [kind |-> "value", s |-> SubSeq(cookie, Len(name) + 1, Len(cookie))]
             ELSE FindCookie(cookies, i + 1, name)

\* getCookie(): [kind |-> "value", s |-> text], [kind |-> "null"], or
\* [kind |-> "throw"] when decodeURIComponent raises URIError
getCookie(session, j, t) ==
    LET decodedCookie == decodeURIComponent(DocumentCookieGet(j, t))
    IN  IF decodedCookie = <<"URIError">> THEN [kind |-> "throw"]
        ELSE FindCookie(Split(decodedCookie, ";"), 1, session.cookieName \o <<"=">>)

(***************************************************************************)
(* The host and the collectors.                                            *)
(* host[key] is the state of the capability the collector of that key      *)
(* reads: "ok", "absent" (the object or method is not there, or the        *)
(* factory gives null) or "throws" (the call raises or its promise         *)
(* rejects).  A collector's get() gives [kind, value]:                     *)
(*   "return"  it returned the result, or its promise was fulfilled        *)
(*             without waiting for the host;                               *)
(*   "await"   an async get() waits for a host operation and will give     *)
(*             the result when that completes;                             *)
(*   "raise"   a synchronous get() threw;                                  *)
(*   "reject"  an async get() threw, so its promise is rejected.           *)
(* Objects outside the stable key set are written {} and lists []: nothing *)
(* reads inside these values.                                              *)
(***************************************************************************)
\* what navigator.userAgent reports: before and after a browser update
UserAgents == <<(<<"U", "A", "-", "X">>), (<<"U", "A", "-", "Z">>)>>
CanvasDataURL == <<"C", "A", "N", "V", "A", "S", "-", "Y">>
WebGLInfo ==
    <<"{", "\"", "v", "e", "n", "d", "o", "r", "\"", ":", "\"", "W", "\"", ",", "\"",
      "r", "e", "n", "d", "e", "r", "e", "r", "\"", ":", "\"", "G", "\"", ",", "\"",
      "e", "x", "t", "e", "n", "s", "i", "o", "n", "s", "\"", ":", "[", "]", "}">>
VideoCardInfo ==
    <<"{", "\"", "v", "e", "n", "d", "o", "r", "\"", ":", "\"", "N", "\"", ",", "\"",
      "r", "e", "n", "d", "e", "r", "e", "r", "\"", ":", "\"", "T", "\"", "}">>
FontList ==
    <<"[", "\"", "A", "r", "i", "a", "l", "\"", "]">>
EmptyObject == JsonVal(<<"{", "}">>)
EmptyList == JsonVal(<<"[", "]">>)
ErrorMessage == StrVal(<<"e", "r", "r">>)

Result(k, v) == [key |-> k, value |-> v]
Return(k, v) == [kind |-> "return", value |-> Result(k, v)]
Await(k, v)  == [kind |-> "await", value |-> Result(k, v)]
Raise(k)     == [kind |-> "raise", value |-> Result(k, Undefined)]
Reject(k)    == [kind |-> "reject", value |-> Result(k, Undefined)]

userAgentGet(st, ua) == Return("userAgent", StrVal(ua))
webdriverGet(st) == Return("webdriver", JsonVal(<<"f", "a", "l", "s", "e">>))
languageGet(st) == Return("language", StrVal(<<"e", "n">>))
colorDepthGet(st) == Return("colorDepth", NumVal(24))
\* navigator.deviceMemory is undefined where the host does not expose it
deviceMemoryGet(st) ==
    Return("deviceMemory", IF st = "ok" THEN NumVal(8) ELSE Undefined)
pixelRatioGet(st) == Return("pixelRatio", NumVal(2))
hardwareConcurrencyGet(st) ==
    Return("hardwareConcurrency", IF st = "ok" THEN NumVal(4) ELSE Undefined)

\* no guard and no try: a null 2d context makes ctx.textBaseline = ... throw
CanvasFingerprintGet(st) ==
    IF st = "ok" THEN Return("canvas", StrVal(CanvasDataURL)) ELSE Raise("canvas")

\* the whole body is in a try; the catch returns error.message
AudioFingerprintGet(st) ==
    IF st = "ok" THEN Await("audio", NumVal(35)) ELSE Return("audio", ErrorMessage)

WebGLFingerprintGet(st) ==
    Return("webgl", IF st = "ok" THEN JsonVal(WebGLInfo) ELSE Null)

\* no guard and no try: without a body element h.appendChild throws
FontFingerprintGet(st) ==
    IF st = "ok" THEN Return("fonts", JsonVal(FontList)) ELSE Raise("fonts")

PluginFingerprintGet(st) ==
    Return("plugins", IF st = "ok" THEN EmptyList ELSE Null)

TouchSupportFingerprintGet(st) == Return("touch", EmptyObject)

\* async without an await: the promise is fulfilled when get() returns
HardwareFingerprintGet(st) == Return("hardware", EmptyObject)

BatteryFingerprintGet(st) ==
    CASE st = "ok" -> Await("battery", EmptyObject)
      [] st = "absent" -> Return("battery", Null)
      [] OTHER -> Await("battery", Null)

\* no try: a getVoices that throws rejects the promise; with no voices yet
\* the collector waits for the host's voiceschanged event
VoicesFingerprintGet(st) ==
    CASE st = "ok" -> Await("voices", EmptyList)
      [] st = "absent" -> Return("voices", Null)
      [] OTHER -> Reject("voices")

WebRTCFingerprintGet(st) ==
    CASE st = "ok" -> Await("webrtc", EmptyObject)
      [] st = "absent" -> Return("webrtc", Null)
      [] OTHER -> Await("webrtc", Null)

\* no guard and no try: without CSS.supports or matchMedia get() throws
CSSFeaturesFingerprintGet(st) ==
    IF st = "ok" THEN Return("cssFeatures", EmptyObject) ELSE Raise("cssFeatures")

MediaDevicesFingerprintGet(st) ==
    CASE st = "ok" -> Await("mediaDevices", EmptyList)
      [] st = "absent" -> Return("mediaDevices", Null)
      [] OTHER -> Await("mediaDevices", Null)

PressureSensorFingerprintGet(st) ==
    Return("pressureSensor", IF st = "ok" THEN EmptyObject ELSE Null)

GPUFingerprintGet(st) ==
    CASE st = "ok" -> Await("gpu", EmptyObject)
      [] st = "absent" -> Return("gpu", Null)
      [] OTHER -> Await("gpu", Null)

\* _testSpeed catches a failed fetch and gives null inside the value
NetworkFingerprintGet(st) == Await("network", EmptyObject)

VideoCardFingerprintGet(st) ==
    Return("videoCard", IF st = "ok" THEN JsonVal(VideoCardInfo) ELSE Null)

\* c.get() of the collector registered under key
CollectorGet(key, h, ua) ==
    CASE key = "userAgent" -> userAgentGet(h[key], ua)
      [] key = "webdriver" -> webdriverGet(h[key])
      [] key = "language" -> languageGet(h[key])
      [] key = "colorDepth" -> colorDepthGet(h[key])
      [] key = "deviceMemory" -> deviceMemoryGet(h[key])
      [] key = "pixelRatio" -> pixelRatioGet(h[key])
      [] key = "hardwareConcurrency" -> hardwareConcurrencyGet(h[key])
      [] key = "canvas" -> CanvasFingerprintGet(h[key])
      [] key = "audio" -> AudioFingerprintGet(h[key])
      [] key = "webgl" -> WebGLFingerprintGet(h[key])
      [] key = "fonts" -> FontFingerprintGet(h[key])
      [] key = "plugins" -> PluginFingerprintGet(h[key])
      [] key = "touch" -> TouchSupportFingerprintGet(h[key])
      [] key = "hardware" -> HardwareFingerprintGet(h[key])
      [] key = "battery" -> BatteryFingerprintGet(h[key])
      [] key = "voices" -> VoicesFingerprintGet(h[key])
      [] key = "webrtc" -> WebRTCFingerprintGet(h[key])
      [] key = "cssFeatures" -> CSSFeaturesFingerprintGet(h[key])
      [] key = "mediaDevices" -> MediaDevicesFingerprintGet(h[key])
      [] key = "pressureSensor" -> PressureSensorFingerprintGet(h[key])
      [] key = "gpu" -> GPUFingerprintGet(h[key])
      [] key = "network" -> NetworkFingerprintGet(h[key])
      [] OTHER -> VideoCardFingerprintGet(h[key])

\* the collectors Fingerprint.load registers, in its order
LoadComponents ==
    <<"userAgent", "webdriver", "language", "colorDepth", "deviceMemory",
      "pixelRatio", "hardwareConcurrency", "canvas", "audio", "webgl", "fonts",
      "plugins", "touch", "hardware", "battery", "voices", "webrtc",
      "cssFeatures", "mediaDevices", "pressureSensor", "gpu", "network",
      "videoCard">>

RECURSIVE addComponents(_, _)
\* the chain of bf.addComponent(...) calls: each pushes one collector
addComponents(components, more) ==
    IF more = <<>> THEN components
    ELSE addComponents(Append(components, Head(more)), Tail(more))

AllOk == [k \in {LoadComponents[i] : i \in 1..Len(LoadComponents)} |-> "ok"]

\* a browser without the Battery, WebGPU and media-devices interfaces
Plain == [AllOk EXCEPT !["battery"] = "absent", !["gpu"] = "absent",
                       !["mediaDevices"] = "absent"]

\* one more capability missing or failing
Faults ==
    {<<"deviceMemory", "absent">>, <<"canvas", "absent">>, <<"audio", "throws">>,
     <<"webgl", "absent">>, <<"voices", "throws">>, <<"cssFeatures", "absent">>,
     <<"webrtc", "throws">>}

\* the hosts of the model: every capability there, the plain browser, and
\* the plain browser with one fault
Hosts == {AllOk, Plain} \cup {[Plain EXCEPT ![f[1]] = f[2]] : f \in Faults}

(***************************************************************************)
(* BrowserFingerprint.get and Fingerprint.load                             *)
(***************************************************************************)
\* the keys the filter of get() lets through
StableKeys ==
    {"userAgent", "hardwareConcurrency", "deviceMemory", "language", "colorDepth",
     "pixelRatio", "videoCard", "canvas", "webgl", "fonts"}

\* the allow-list in the order the source writes it
StableKeyList ==
    <<"userAgent", "hardwareConcurrency", "deviceMemory", "language", "colorDepth",
      "pixelRatio", "videoCard", "canvas", "webgl", "fonts">>

\* components.filter((c) => [...].includes(c.key))
stableComponentsAll(components) == components
stableComponentsByAllowList(components) ==
    Concat([k \in 1..Len(StableKeyList) |->
               SelectSeq(components, LAMBDA c : c.key = StableKeyList[k])])
stableComponents(components) == SelectSeq(components, LAMBDA c : c.key \in StableKeys)

\* the map of get(): every c.get() in registry order, up to the first that
\* throws.  st is "done" (result there), "pending" (promise waiting for the
\* host), "rejected" (promise rejected), "raised" (get() threw) or "none"
\* (never called).
LaunchIsolated(components, h, ua) ==
    LET got == [i \in 1..Len(components) |-> CollectorGet(components[i], h, ua)]
    IN  [i \in 1..Len(components) |->
            [st |-> IF got[i].kind = "await" THEN "pending" ELSE "done",
             value |-> got[i].value]]
Launch(components, h, ua) ==
    LET got    == [i \in 1..Len(components) |-> CollectorGet(components[i], h, ua)]
        raised == {i \in 1..Len(components) : got[i].kind = "raise"}
        stop   == IF raised = {} THEN Len(components) + 1
                  ELSE CHOOSE i \in raised : \A j \in raised : i <= j
    IN  [i \in 1..Len(components) |->
            [st |-> IF i > stop THEN "none"
                    ELSE IF i = stop THEN "raised"
                    ELSE IF got[i].kind = "return" THEN "done"
                    ELSE IF got[i].kind = "await" THEN "pending"
                    ELSE "rejected",
             value |-> got[i].value]]

\* what Promise.all resolves with: the results by position
PromiseAllByCompletion(results, h, ua) ==
    LET early == {i \in 1..Len(results) :
                    CollectorGet(results[i].value.key, h, ua).kind = "return"}
    IN  SelectSeq([i \in 1..Len(results) |-> results[i].value],
                  LAMBDA r : \E i \in early : results[i].value = r)
        \o SelectSeq([i \in 1..Len(results) |-> results[i].value],
                     LAMBDA r : ~ \E i \in early : results[i].value = r)
PromiseAll(results, h, ua) == [i \in 1..Len(results) |-> results[i].value]

\* if (!visitorId) is not taken: getCookie gave a non-empty text
CacheHitNever(read) == FALSE
CacheHit(read) == read.kind = "value" /\ read.s # <<>>

\* an async function gives its caller a promise and never throws at the call
AsyncCall(bodyThrows) ==
    [called |-> TRUE, threw |-> FALSE,
     promise |-> IF bodyThrows THEN "rejected" ELSE "fulfilled"]

NoOptions == [none |-> TRUE]
NoSession == [state |-> "none"]
NotLoaded == [called |-> FALSE]
NoRet == [none |-> TRUE]
NoRead == [kind |-> "none"]

\* new BrowserFingerprint(options) followed by the addComponent chain of load
Session(o) ==
    [state      |-> "ready",
     apiKey     |-> ConstructorFields(o).apiKey,
     cookieName |-> ConstructorFields(o).cookieName,
     cookieDays |-> ConstructorFields(o).cookieDays,
     components |-> addComponents(<<>>, LoadComponents)]

\* the arguments load is given in the model
OptionSet ==
    {[apiKey |-> NoValue, cookieName |-> NoValue, cookieDays |-> NoValue],
     [apiKey |-> StrVal(<<>>), cookieName |-> NoValue, cookieDays |-> NoValue],
     [apiKey |-> StrVal(<<"k">>), cookieName |-> NoValue, cookieDays |-> NoValue],
     [apiKey |-> StrVal(<<"k">>), cookieName |-> StrVal(<<"v", "i", "d">>),
      cookieDays |-> NumVal(1)]}

\* the cookies other code of the origin left in the jar before the session:
\* none, a plain one, or one whose value is a lone "%"
JarInits ==
    {<<>>,
     <<[name |-> <<"o">>, value |-> <<"a">>, expires |-> DefaultCookieDays + MaxNow + 1]>>,
     <<[name |-> <<"o">>, value |-> <<"%">>, expires |-> DefaultCookieDays + MaxNow + 1]>>}

Calls == 1..MaxCalls

IdleCall ==
    [pc |-> "idle", after |-> {}, read |-> NoRead, readWrites |-> 0, readAt |-> 0,
     results |-> <<>>, ooo |-> FALSE, ret |-> NoRet, error |-> "none",
     wroteAt |-> 0, wroteExp |-> 0]

Settled(c) == calls[c].pc \in {"resolved", "rejected"}
NoCallInFlight == \A c \in Calls : calls[c].pc = "idle" \/ Settled(c)

Init ==
    /\ options = NoOptions
    /\ loadResult = NotLoaded
    /\ bf = NoSession
    /\ jar \in JarInits
    /\ now = 0
    /\ host \in Hosts
    /\ userAgent = UserAgents[1]
    /\ calls = [c \in Calls |-> IdleCall]
    /\ writes = 0
    /\ pureIn = <<>>
    /\ pureOut = [op |-> "none"]
    /\ storeLog = [op |-> "none"]

\* Fingerprint.load(o)
Load(o) ==
    /\ ~loadResult.called
    /\ options' = o
    /\ loadResult' = AsyncCall(ConstructorThrows(o))
    /\ bf' = IF ConstructorThrows(o) THEN NoSession ELSE Session(o)
    /\ UNCHANGED <<jar, now, host, userAgent, calls, writes, pureIn, pureOut, storeLog>>

\* bf.get() up to its first await: await this.verifyApiKey()
GetStart(c) ==
    /\ bf.state = "ready"
    /\ calls[c].pc = "idle"
    /\ \A d \in 1..(c - 1) : calls[d].pc # "idle"
    /\ calls' = [calls EXCEPT ![c] =
                    [@ EXCEPT !.pc = "verify", !.after = {d \in Calls : Settled(d)}]]
    /\ UNCHANGED <<options, loadResult, bf, jar, now, host, userAgent, writes,
                   pureIn, pureOut, storeLog>>

\* get() from getCookie() to its return on a hit, or to await Promise.all
GetResume(c) ==
    /\ calls[c].pc = "verify"
    /\ LET read == getCookie(bf, jar, now)
           seen == [calls[c] EXCEPT !.read = read, !.readWrites = writes, !.readAt = now]
           results == Launch(bf.components, host, userAgent)
       IN  calls' = [calls EXCEPT ![c] =
             IF read.kind = "throw"
             THEN [seen EXCEPT !.pc = "rejected", !.error = "URIError"]
             ELSE IF CacheHit(read)
             THEN [seen EXCEPT !.pc = "resolved",
                               !.ret = [visitorId |-> read.s, fromCookie |-> TRUE]]
             ELSE IF \E i \in 1..Len(results) : results[i].st = "raised"
             THEN [seen EXCEPT !.pc = "rejected", !.error = "collector",
                               !.results = results]
             ELSE [seen EXCEPT !.pc = "collect", !.results = results]]
    /\ UNCHANGED <<options, loadResult, bf, jar, now, host, userAgent, writes,
                   pureIn, pureOut, storeLog>>

\* the host operation collector i waits for completes
Settle(c, i) ==
    /\ calls[c].pc = "collect"
    /\ i \in 1..Len(calls[c].results)
    /\ calls[c].results[i].st = "pending"
    /\ calls' = [calls EXCEPT ![c] =
                    [@ EXCEPT !.results[i].st = "done",
                              !.ooo = @ \/ \E j \in 1..(i - 1) :
                                              calls[c].results[j].st = "pending"]]
    /\ UNCHANGED <<options, loadResult, bf, jar, now, host, userAgent, writes,
                   pureIn, pureOut, storeLog>>

\* Promise.all rejects with the first rejected promise, and get() with it
GetReject(c) ==
    /\ calls[c].pc = "collect"
    /\ \E i \in 1..Len(calls[c].results) : calls[c].results[i].st = "rejected"
    /\ calls' = [calls EXCEPT ![c] = [@ EXCEPT !.pc = "rejected", !.error = "collector"]]
    /\ UNCHANGED <<options, loadResult, bf, jar, now, host, userAgent, writes,
                   pureIn, pureOut, storeLog>>

\* Promise.all resolves: filter, hashComponents, setCookie, return
GetFinish(c) ==
    /\ calls[c].pc = "collect"
    /\ \A i \in 1..Len(calls[c].results) : calls[c].results[i].st = "done"
    /\ LET components == PromiseAll(calls[c].results, host, userAgent)
           visitorId  == hashComponents(stableComponents(components))
       IN  /\ jar' = setCookie(bf, visitorId, jar, now)
           /\ calls' = [calls EXCEPT ![c] =
                 [@ EXCEPT !.pc = "resolved",
                           !.ret = [visitorId |-> visitorId, components |-> components],
                           !.wroteAt = writes + 1,
                           !.wroteExp = now + bf.cookieDays]]
    /\ writes' = writes + 1
    /\ UNCHANGED <<options, loadResult, bf, now, host, userAgent, pureIn, pureOut, storeLog>>

\* a day passes
Tick ==
    /\ now < MaxNow
    /\ now' = now + 1
    /\ UNCHANGED <<options, loadResult, bf, jar, host, userAgent, calls, writes,
                   pureIn, pureOut, storeLog>>

\* the browser is updated and navigator.userAgent changes.  Only the map
\* of get() reads it, so a change while a call waits is the same change made
\* once the call has settled.
ChangeUserAgent ==
    /\ NoCallInFlight
    /\ userAgent = UserAgents[1]
    /\ userAgent' = UserAgents[2]
    /\ UNCHANGED <<options, loadResult, bf, jar, now, host, calls, writes,
                   pureIn, pureOut, storeLog>>

\* get() calls made one after the other: each starts when none is in flight
Next ==
    \/ \E o \in OptionSet : Load(o)
    \/ \E c \in Calls : NoCallInFlight /\ GetStart(c)
    \/ \E c \in Calls : GetResume(c)
    \/ \E c \in Calls : \E i \in 1..Len(LoadComponents) : Settle(c, i)
    \/ \E c \in Calls : GetReject(c)
    \/ \E c \in Calls : GetFinish(c)
    \/ Tick
    \/ ChangeUserAgent

Spec == Init /\ [][Next]_vars

(***************************************************************************)
(* get() calls made without waiting for one another.  get() holds no lock  *)
(* from getCookie() to setCookie(): a second call can be started, and can  *)
(* read the store, while the first waits for its collectors.               *)
(***************************************************************************)
\* a browser where the audio context fails and speech synthesis and WebRTC
\* are missing: only the network probe is waited for
Bare == [Plain EXCEPT !["audio"] = "throws", !["voices"] = "absent",
                      !["webrtc"] = "absent"]

\* the hosts of the concurrent calls: one or two collectors to wait for
RaceHosts == {Bare, [Bare EXCEPT !["webrtc"] = "ok"]}

\* the sessions of the concurrent calls: the key alone, and every option
RaceOptionSet == {o \in OptionSet : ~ConstructorThrows(o)}

\* the other code of the origin left no cookie, or a plain one
RaceJarInits == {j \in JarInits : \A i \in 1..Len(j) : j[i].value # <<"%">>}

InitRace ==
    /\ options = NoOptions
    /\ loadResult = NotLoaded
    /\ bf = NoSession
    /\ jar \in RaceJarInits
    /\ now = 0
    /\ host \in RaceHosts
    /\ userAgent = UserAgents[1]
    /\ calls = [c \in Calls |-> IdleCall]
    /\ writes = 0
    /\ pureIn = <<>>
    /\ pureOut = [op |-> "none"]
    /\ storeLog = [op |-> "none"]

\* navigator.userAgent changes while get() calls wait for their collectors
ChangeUserAgentInFlight ==
    /\ ~NoCallInFlight
    /\ userAgent = UserAgents[1]
    /\ userAgent' = UserAgents[2]
    /\ UNCHANGED <<options, loadResult, bf, jar, now, host, calls, writes,
                   pureIn, pureOut, storeLog>>

\* the calls of one page visit: no day passes while they are in flight
NextRace ==
    \/ \E o \in RaceOptionSet : Load(o)
    \/ \E c \in Calls : GetStart(c)
    \/ \E c \in Calls : GetResume(c)
    \/ \E c \in Calls : \E i \in 1..Len(LoadComponents) : Settle(c, i)
    \/ \E c \in Calls : GetFinish(c)
    \/ ChangeUserAgentInFlight

SpecRace == InitRace /\ [][NextRace]_vars

(***************************************************************************)
(* setCookie and getCookie applied directly on a session, one write and    *)
(* then one read.                                                          *)
(***************************************************************************)
StoreAlphabet == {"a", "-", "%", "3", "B", ";", " "}
StoreValues == UNION {[1..n -> StoreAlphabet] : n \in 0..MaxValueLen}

\* the arguments of load for the sessions the store is tried on
StoreOptions ==
    {o \in OptionSet : ~ConstructorThrows(o)}
    \cup {[apiKey |-> StrVal(<<"k">>), cookieName |-> StrVal(<<>>),
           cookieDays |-> NumVal(0)]}

InitStore ==
    /\ options \in StoreOptions
    /\ loadResult = AsyncCall(FALSE)
    /\ bf = Session(options)
    /\ jar \in JarInits
    /\ now = 0
    /\ host = Plain
    /\ userAgent = UserAgents[1]
    /\ calls = [c \in Calls |-> IdleCall]
    /\ writes = 0
    /\ pureIn = <<>>
    /\ pureOut = [op |-> "none"]
    /\ storeLog = [op |-> "none"]

StoreWrite(v) ==
    /\ storeLog.op = "none"
    /\ jar' = setCookie(bf, v, jar, now)
    /\ writes' = writes + 1
    /\ storeLog' = [op |-> "write", v |-> v]
    /\ UNCHANGED <<options, loadResult, bf, now, host, userAgent, calls, pureIn, pureOut>>

StoreRead ==
    /\ storeLog.op = "write"
    /\ storeLog' = [op |-> "read", v |-> storeLog.v, r |-> getCookie(bf, jar, now)]
    /\ UNCHANGED <<options, loadResult, bf, jar, now, host, userAgent, calls, writes,
                   pureIn, pureOut>>

NextStore ==
    \/ \E v \in StoreValues : StoreWrite(v)
    \/ StoreRead

SpecStore == InitStore /\ [][NextStore]_vars

(***************************************************************************)
(* The filter of get() and hashComponents applied to given result lists.   *)
(***************************************************************************)
PureResults ==
    {Result("userAgent", StrVal(UserAgents[1])), Result("canvas", Null),
     Result("audio", NumVal(35)), Result("deviceMemory", Undefined),
     Result("fonts", JsonVal(FontList)), Result("webdriver", StrVal(<<"a">>)),
     Result("colorDepth", NumVal(24))}
PureInputs == UNION {[1..n -> PureResults] : n \in 0..MaxPureLen}

InitPure ==
    /\ options = NoOptions
    /\ loadResult = NotLoaded
    /\ bf = NoSession
    /\ jar = <<>>
    /\ now = 0
    /\ host = Plain
    /\ userAgent = UserAgents[1]
    /\ calls = [c \in Calls |-> IdleCall]
    /\ writes = 0
    /\ pureIn \in PureInputs
    /\ pureOut = [op |-> "none"]
    /\ storeLog = [op |-> "none"]

ApplyFilter ==
    /\ pureOut.op = "none"
    /\ pureOut' = [op |-> "filter", out |-> stableComponents(pureIn)]
    /\ UNCHANGED <<options, loadResult, bf, jar, now, host, userAgent, calls, writes,
                   pureIn, storeLog>>

ApplyHash ==
    /\ pureOut.op = "none"
    /\ pureOut' = [op |-> "hash", out |-> hashComponents(pureIn)]
    /\ UNCHANGED <<options, loadResult, bf, jar, now, host, userAgent, calls, writes,
                   pureIn, storeLog>>

NextPure == ApplyFilter \/ ApplyHash

SpecPure == InitPure /\ [][NextPure]_vars

(***************************************************************************)
(* The properties.                                                         *)
(***************************************************************************)
\* the stable key set as the specification lists it
SpecStableKeys ==
    {"userAgent", "hardwareConcurrency", "deviceMemory", "language", "colorDepth",
     "pixelRatio", "videoCard", "canvas", "webgl", "fonts"}

\* list is the results of full whose key is in the stable set, in full's order
IsStableSubset(list, full) ==
    LET idx == {i \in 1..Len(full) : full[i].key \in SpecStableKeys}
        rank(i) == Cardinality({j \in idx : j <= i})
    IN  /\ Len(list) = Cardinality(idx)
        /\ \A i \in idx : list[rank(i)] = full[i]

\* the stable subset of full, picked position by position
StableSubset(full) ==
    LET idx == {i \in 1..Len(full) : full[i].key \in SpecStableKeys}
        nth(k) == CHOOSE i \in idx : Cardinality({j \in idx : j <= i}) = k
    IN  [k \in 1..Cardinality(idx) |-> full[nth(k)]]

ResolvedMiss(c) == calls[c].pc = "resolved" /\ calls[c].read.kind = "null"
ResolvedHit(c) == calls[c].pc = "resolved" /\ calls[c].read.kind = "value"

\* c2 is a get() started after c1 resolved on an empty store, and c2 read the
\* store while the record c1 wrote was there: not expired, not overwritten
Sequential(c1, c2) ==
    /\ ResolvedMiss(c1)
    /\ calls[c2].pc = "resolved"
    /\ c1 \in calls[c2].after
    /\ calls[c2].readWrites = calls[c1].wroteAt
    /\ calls[c2].readAt < calls[c1].wroteExp

\* C1: of two sequential get() calls with no expiry of the record between
\* them, the first (store empty) returns components, and the second returns
\* the same visitorId with fromCookie: true and no components field.
C1_CacheIdempotence ==
    \A c1 \in Calls : \A c2 \in Calls :
        Sequential(c1, c2) =>
            /\ "components" \in DOMAIN calls[c1].ret
            /\ calls[c2].ret = [visitorId |-> calls[c1].ret.visitorId, fromCookie |-> TRUE]

\* the second call answers from the cookie after the browser update changed
\* what a new collection would give
C1_Witness ==
    \E c1 \in Calls : \E c2 \in Calls :
        /\ Sequential(c1, c2)
        /\ calls[c1].ret.components[1].value = StrVal(UserAgents[1])
        /\ userAgent = UserAgents[2]
        /\ Len(jar) = 2

\* C2: a get() that finds no record returns {visitorId: H, components: L},
\* L holding one result per registered collector in registry order and H the
\* hash of the values of the stable-key results of L in list order; the
\* record it writes under the configured name holds H.
C2_CacheMissResult ==
    \A c \in Calls :
        ResolvedMiss(c) =>
            LET ret == calls[c].ret
            IN  /\ DOMAIN ret = {"visitorId", "components"}
                /\ Len(ret.components) = Len(bf.components)
                /\ \A i \in 1..Len(bf.components) : ret.components[i].key = bf.components[i]
                /\ ret.visitorId = hashComponents(StableSubset(ret.components))
                /\ (calls[c].wroteAt = writes /\ now < calls[c].wroteExp) =>
                      \E i \in 1..Len(jar) :
                          /\ jar[i].name = bf.cookieName
                          /\ jar[i].value = ret.visitorId
                          /\ \A j \in 1..Len(jar) : jar[j].name = bf.cookieName => j = i

\* a miss on a host whose webgl context is missing, beside another record
C2_Witness ==
    \E c \in Calls :
        /\ ResolvedMiss(c)
        /\ calls[c].wroteAt = writes
        /\ now < calls[c].wroteExp
        /\ host["webgl"] = "absent"
        /\ Len(jar) = 2

\* the get() call c reads a value and returns it
HitState(c) ==
    (calls[c].pc \notin {"idle", "verify"} /\ calls[c].read.kind = "value") =>
        /\ calls[c].pc = "resolved"
        /\ calls[c].ret = [visitorId |-> calls[c].read.s, fromCookie |-> TRUE]
        /\ calls[c].results = <<>>
        /\ calls[c].wroteAt = 0

\* the step of c that reads a value writes no cookie
HitStep(c) ==
    (calls[c].pc = "verify" /\ calls'[c].read.kind = "value") =>
        jar' = jar /\ writes' = writes

C4_LoadThrowsSynchronously ==
    (loadResult.called /\ Falsy(options.apiKey)) =>
        /\ loadResult.threw
        /\ bf = NoSession
        /\ \A c \in Calls : calls[c] = IdleCall

\* C4, amended: load without apiKey (left out or empty) gives a promise that
\* is already rejected; there is no session, no collector is registered or
\* run, and no get() can be started.
C4_LoadRejects ==
    (loadResult.called /\ Falsy(options.apiKey)) =>
        /\ ~loadResult.threw
        /\ loadResult.promise = "rejected"
        /\ bf = NoSession
        /\ \A c \in Calls : calls[c] = IdleCall

C4_Witness ==
    loadResult.called /\ options.apiKey = StrVal(<<>>) /\ loadResult.promise = "rejected"

\* C5: on a miss every registered collector has been called when get()
\* starts to wait, and whatever order the collectors complete in, the
\* components list has the registry's length and its i-th entry is the result
\* of the i-th registered collector.
C5_OrderPreserved ==
    \A c \in Calls :
        /\ calls[c].pc = "collect" =>
              /\ Len(calls[c].results) = Len(bf.components)
              /\ \A i \in 1..Len(bf.components) : calls[c].results[i].st # "none"
        /\ ResolvedMiss(c) =>
              /\ Len(calls[c].ret.components) = Len(bf.components)
              /\ \A i \in 1..Len(bf.components) :
                    /\ calls[c].ret.components[i].key = bf.components[i]
                    /\ calls[c].ret.components[i] = calls[c].results[i].value

\* a miss whose collectors completed out of registration order
C5_Witness == \E c \in Calls : ResolvedMiss(c) /\ calls[c].ooo

\* C6: no registered collector raises, whatever capability is missing or
\* failing, and the components list of a miss has one entry per collector.
C6_CollectorIsolation ==
    \A c \in Calls :
        /\ \A i \in 1..Len(calls[c].results) :
              calls[c].results[i].st \notin {"raised", "rejected"}
        /\ ResolvedMiss(c) => Len(calls[c].ret.components) = Len(bf.components)

\* C7: get() rejects only when a registered collector raised.
C7_RejectsOnlyOnCollector ==
    \A c \in Calls :
        calls[c].pc = "rejected" =>
            \E i \in 1..Len(calls[c].results) :
                calls[c].results[i].st \in {"raised", "rejected"}

\* C8: a read right after write(v) returns v.
C8_StoreRoundTrip ==
    storeLog.op = "read" => storeLog.r = [kind |-> "value", s |-> storeLog.v]

\* h = (h << 5) - h + code as a 32-bit integer: 31 * h + code, wrapped
WrappedStep(h, code) ==
    LET t == 31 * (h % Two16) + code
    IN  Int32OfHalves(31 * (h \div Two16) + (t \div Two16), t % Two16)

RECURSIVE WrappedFold(_, _, _, _)
\* the accumulator h after the characters from..to of str, one wrapped step
\* per character (the range is taken in two halves)
WrappedFold(str, from, to, h) ==
    IF from > to THEN h
    ELSE IF from = to THEN WrappedStep(h, charCodeAt(str[from]))
    ELSE LET mid == (from + to) \div 2
             left == WrappedFold(str, from, mid, h)
         IN  IF left \in Int THEN WrappedFold(str, mid + 1, to, left) ELSE left

RECURSIVE MinusHexValue(_, _)
\* minus the number the lowercase hexadecimal digits ds write, after acc
MinusHexValue(ds, acc) ==
    IF ds = <<>> THEN acc
    ELSE MinusHexValue(Tail(ds),
                       16 * acc - ((CHOOSE k \in 1..16 : HexDigits[k] = Head(ds)) - 1))

IsLowerHex(ds) ==
    ds # <<>> /\ \A i \in 1..Len(ds) : \E k \in 1..16 : HexDigits[k] = ds[i]

\* text writes n in lowercase hexadecimal, "-" first when n < 0
WritesInHex(text, n) ==
    IF n < 0
    THEN /\ Len(text) >= 2 /\ Head(text) = "-" /\ IsLowerHex(Tail(text))
         /\ MinusHexValue(Tail(text), 0) = n
    ELSE /\ IsLowerHex(text)
         /\ MinusHexValue(text, 0) = 0 - n

\* C9: the hash of a list of results is the rolling 32-bit hash
\* h = (h << 5) - h + code, from 0 and wrapped after every character, of the
\* JSON text of their values alone in list order, written in lowercase
\* hexadecimal with a leading "-" when negative.
C9_HasherAlgorithm ==
    pureOut.op = "hash" =>
        LET str == JSONstringify([i \in 1..Len(pureIn) |-> pureIn[i].value])
        IN  WritesInHex(pureOut.out, WrappedFold(str, 1, Len(str), 0))

\* a negative hash of two values
C9_Witness ==
    /\ pureOut.op = "hash"
    /\ Len(pureIn) >= 2
    /\ pureIn[1] # pureIn[2]
    /\ Head(pureOut.out) = "-"
    /\ Len(pureOut.out) = 9

\* C10: the filter returns exactly the results whose key is in the stable key
\* set, in the order of the list it is given; stable keys the list lacks are
\* just missing, and no other key gets through.
C10_StableSubset ==
    pureOut.op = "filter" =>
        /\ IsStableSubset(pureOut.out, pureIn)
        /\ \A i \in 1..Len(pureOut.out) : pureOut.out[i].key \in SpecStableKeys

\* canvas comes before userAgent in the list and stays before it, a key
\* outside the set is dropped, and most stable keys are not in the list
C10_Witness ==
    /\ pureOut.op = "filter"
    /\ Len(pureIn) = 3
    /\ pureIn[1].key = "canvas"
    /\ pureIn[2].key = "audio"
    /\ pureIn[3].key = "userAgent"
    /\ pureOut.out = <<pureIn[1], pureIn[3]>>

\* the records held under the session's record name
NamedRecords == {i \in 1..Len(jar) : jar[i].name = bf.cookieName}

\* c1 and c2 both read the store before either wrote, and both wrote
Raced(c1, c2) ==
    /\ c1 # c2
    /\ ResolvedMiss(c1) /\ ResolvedMiss(c2)
    /\ calls[c1].readWrites < calls[c1].wroteAt
    /\ calls[c2].readWrites < calls[c1].wroteAt
    /\ calls[c1].wroteAt < calls[c2].wroteAt

\* C11: get() calls in flight together on a store without a record each
\* return the list of their own collectors' results and the hash of its
\* stable part; the record holds the identifier of the call that wrote last
\* and not the earlier one's write beside it; and the store never holds more
\* than one record under the session's record name.
C11_ConcurrentRace ==
    /\ bf.state = "ready" => Cardinality(NamedRecords) <= 1
    /\ \A c \in Calls :
          ResolvedMiss(c) =>
            /\ calls[c].ret.components =
                  [i \in 1..Len(calls[c].results) |-> calls[c].results[i].value]
            /\ calls[c].ret.visitorId =
                  hashComponents(StableSubset(calls[c].ret.components))
            /\ (calls[c].wroteAt = writes /\ now < calls[c].wroteExp) =>
                  /\ NamedRecords # {}
                  /\ \A i \in NamedRecords :
                        /\ jar[i].value = calls[c].ret.visitorId
                        /\ jar[i].expires = calls[c].wroteExp

\* two calls read 'absent' and both wrote; the user agent changed between
\* their collections, so their identifiers differ and the record holds the
\* later writer's
C11_Witness ==
    \E c1 \in Calls : \E c2 \in Calls :
        /\ Raced(c1, c2)
        /\ calls[c2].wroteAt = writes
        /\ calls[c1].ret.visitorId # calls[c2].ret.visitorId
        /\ \E i \in NamedRecords : jar[i].value = calls[c2].ret.visitorId
        /\ \A i \in 1..Len(jar) : jar[i].value # calls[c1].ret.visitorId

\* a collector of the session raises on this host: its get() throws or the
\* promise it returns is rejected
RaisingCollector ==
    /\ bf.state = "ready"
    /\ \E i \in 1..Len(bf.components) :
          CollectorGet(bf.components[i], host, userAgent).kind \in {"raise", "reject"}

\* the call c found no record and went on to the collectors
OnMissPath(c) == calls[c].pc \notin {"idle", "verify"} /\ calls[c].read.kind = "null"

\* c on the miss path with a raising collector: it cannot resolve, it has no
\* result and wrote nothing; once settled it is rejected with the collector's
\* error
FailFastState(c) ==
    (OnMissPath(c) /\ RaisingCollector) =>
        /\ calls[c].pc \in {"collect", "rejected"}
        /\ calls[c].pc = "rejected" => calls[c].error = "collector"
        /\ calls[c].ret = NoRet
        /\ calls[c].wroteAt = 0

\* a get() started after c1 was rejected by a collector, with no write in
\* between, finds no record and calls the collectors again
MissAgain(c1, c2) ==
    (/\ calls[c1].pc = "rejected" /\ calls[c1].error = "collector"
     /\ c1 \in calls[c2].after
     /\ calls[c2].pc \notin {"idle", "verify"}
     /\ calls[c2].readWrites = calls[c1].readWrites) =>
        /\ calls[c2].read.kind = "null"
        /\ calls[c2].results # <<>>

\* the steps of a call on the failing miss path leave the store alone
FailFastStep(c) ==
    (RaisingCollector /\ calls'[c] # calls[c] /\ calls'[c].read.kind = "null") =>
        jar' = jar /\ writes' = writes

\* C12: when a registered collector raises, by throwing or by rejecting its
\* promise, a get() that found no record is rejected: it returns no
\* identifier and writes no record, its steps leave the store unchanged, and
\* the next get() finds no record and runs the collectors again.
C12_FailFast ==
    /\ [](\A c \in Calls : FailFastState(c))
    /\ [](\A c1 \in Calls : \A c2 \in Calls : MissAgain(c1, c2))
    /\ [][\A c \in Calls : FailFastStep(c)]_vars

\* a call rejected by a rejected promise while another collector was still
\* waited for, then a second call that took the miss path again; the jar is
\* as it was at the start
C12_Witness ==
    \E c1 \in Calls : \E c2 \in Calls :
        /\ calls[c1].pc = "rejected" /\ calls[c1].error = "collector"
        /\ \E i \in 1..Len(calls[c1].results) : calls[c1].results[i].st = "rejected"
        /\ \E i \in 1..Len(calls[c1].results) : calls[c1].results[i].st = "pending"
        /\ c1 \in calls[c2].after
        /\ OnMissPath(c2)
        /\ calls[c2].pc = "rejected"
        /\ writes = 0
        /\ jar \in JarInits

====
